---- MODULE Spec2Model ----
(***************************************************************************)
(* Vec<T>: the owning, fixed-size sequence container of the workshop, in   *)
(* its three successive versions:                                          *)
(*   "raw"     src/unnamed/part_000:1-102   raw owning pointer, copy       *)
(*             assignment through a temporary buffer (the non-template     *)
(*             part_000:384-468 is the same code over int);                *)
(*   "regular" src/main.cpp                 raw owning pointer, copy       *)
(*             assignment by copy-and-swap;                                *)
(*   "unique"  src/unnamed/part_000:103-231 std::unique_ptr<T[]>, one      *)
(*             by-value assignment operator, clear/at/operator[].          *)
(* The heap is modelled explicitly: an allocation takes an address that is *)
(* not in use, a release frees it, and releasing an address that is not    *)
(* allocated marks it as released twice.                                   *)
(***************************************************************************)
EXTENDS Integers, Sequences, FiniteSets, TLC

\* ---- bounds of the model ----
NumSlots == 3      \* named Vec variables a program has in scope
MaxLen == 2        \* longest sequence constructed
MaxVal == 1        \* element values are 0..MaxVal
MaxAllocs == 3     \* buffers that can be allocated at the same time

Slots == 1..NumSlots
Vals == 0..MaxVal
Addrs == 1..MaxAllocs
Null == 0
Versions == {"raw", "regular", "unique"}

\* all sequences over Vals of length 0..MaxLen
Seqs == UNION {[1..n -> Vals] : n \in 0..MaxLen}

VARIABLES
  version,    \* which version of the class the program is built from
  vec,        \* slot -> the Vec object in it: alive, _size, _data
  heap,       \* address -> state of the buffer there (st) and its elements (cells)
  last        \* the operation executed last, its arguments and its outcome

vars == <<version, vec, heap, last>>

\* ---- objects ----
Obj(sz, p) == [alive |-> TRUE, size |-> sz, data |-> p]
Dead == [alive |-> FALSE, size |-> 0, data |-> Null]

\* size_t _size = 0; T* _data = nullptr;
Empty == Obj(0, Null)

size(v) == v.size
empty(v) == size(v) = 0
data(v) == v.data

\* the elements [begin(), end()) of v, read from heap h
ElemsIn(h, v) == IF data(v) = Null THEN <<>> ELSE SubSeq(h[data(v)].cells, 1, size(v))
Elems(v) == ElemsIn(heap, v)

Op(name, d, s, arg, outcome, ret) ==
  [op |-> name, d |-> d, s |-> s, arg |-> arg, outcome |-> outcome, ret |-> ret]

NoBuffer == [st |-> "free", cells |-> <<>>]

Init ==
  /\ version \in Versions
  /\ vec = [i \in Slots |-> Dead]
  /\ heap = [a \in Addrs |-> NoBuffer]
  /\ last = Op("init", 0, 0, 0, "ok", 0)

\* one step of the program: everything but the version changes as given
Commit(v, h, l) ==
  /\ vec' = v
  /\ heap' = h
  /\ last' = l
  /\ UNCHANGED version

\* ---- the heap ----
\* delete[] p, and unique_ptr's deleter: a null pointer is not released;
\* releasing a buffer that is not allocated is a double release
ReleaseNothing(h, p) == h
Release(h, p) ==
  IF p = Null THEN h
  ELSE [h EXCEPT ![p] = [st |-> IF @.st = "live" THEN "free" ELSE "double",
                         cells |-> <<>>]]

\* new T[n]: an address not in use (never null, also for n = 0)
CanAlloc == \E a \in Addrs : heap[a].st = "free"
Fresh == CHOOSE a \in Addrs : heap[a].st = "free" /\ \A b \in 1..(a - 1) : heap[b].st # "free"
Store(h, p, cells) == [h EXCEPT ![p] = [st |-> "live", cells |-> cells]]

Fill(n, val) == [i \in 1..n |-> val]

\* what a constructor call leaves behind: the object (Dead if it threw) and the heap
Built(o, h) == [ok |-> TRUE, obj |-> o, h |-> h]
Thrown(h) == [ok |-> FALSE, obj |-> Dead, h |-> h]
Outcome(f) == CASE f = "none" -> "ok" [] f = "alloc" -> "bad_alloc" [] OTHER -> "elem_throw"

\* ---- constructors of the raw-pointer versions ----
\* _data = new T[n]; _size = n; std::copy / std::fill into it.
\* A throw from an element copy leaves the constructor with the buffer still
\* allocated: the destructor of a not fully constructed object never runs.
Vec_list_raw(l, f) ==
  CASE f = "alloc" -> Thrown(heap)
    [] f = "elem" -> Thrown(Store(heap, Fresh, <<>>))
    [] OTHER -> Built(Obj(Len(l), Fresh), Store(heap, Fresh, l))

Vec_fill_raw(count, val, f) == Vec_list_raw(Fill(count, val), f)

\* if(that.empty()){ return; } _data = new T[that._size]; copy; _size = that._size;
Vec_copy_raw_shallow(that, f) == Built(Obj(size(that), data(that)), heap)
Vec_copy_raw(that, f) ==
  IF empty(that) THEN Built(Empty, heap)
  ELSE Vec_list_raw(Elems(that), f)

\* ---- constructors of the unique_ptr version ----
\* Vec(size_type count): _data = std::make_unique<T[]>(count); _size = count;
\* the elements are value-initialized
Vec_count(count, f) ==
  IF f = "alloc" THEN Thrown(heap)
  ELSE Built(Obj(count, Fresh), Store(heap, Fresh, Fill(count, 0)))

\* Vec(...) : Vec(count) { std::fill / std::copy }: when the body throws after
\* the delegated constructor has finished, the object is destroyed and its
\* unique_ptr releases the buffer
Vec_list_unique(l, f) ==
  CASE f = "alloc" -> Thrown(heap)
    [] f = "elem" -> Thrown(Release(Vec_count(Len(l), "none").h, Fresh))
    [] OTHER -> Built(Obj(Len(l), Fresh), Store(Vec_count(Len(l), "none").h, Fresh, l))

Vec_fill_unique(count, val, f) == Vec_list_unique(Fill(count, val), f)

Vec_copy_unique_shallow(that, f) == Built(Obj(size(that), data(that)), heap)
Vec_copy_unique(that, f) == Vec_list_unique(Elems(that), f)

\* can the failure f happen while constructing n elements, and is there room
\* for the buffer. An element copy throws only if there is an element, and
\* never in the raw version: its begin() returns int*, so it is only ever
\* instantiated over int
CanFail(n, allocates, f) ==
  /\ f = "alloc" => allocates
  /\ f = "elem" => allocates /\ n > 0 /\ version # "raw"
  /\ (allocates /\ f # "alloc") => CanAlloc

Construct(d, c, l) == Commit([vec EXCEPT ![d] = c.obj], c.h, l)

\* Vec() noexcept
DefaultCtor(d) ==
  /\ ~vec[d].alive
  /\ Construct(d, Built(Empty, heap), Op("default", d, 0, 0, "ok", 0))

\* Vec(size_type count), unique_ptr version only
CountCtor(d, count, f) ==
  /\ version = "unique"
  /\ ~vec[d].alive
  /\ f # "elem"
  /\ CanFail(count, TRUE, f)
  /\ Construct(d, Vec_count(count, f), Op("count", d, 0, 0, Outcome(f), 0))

\* Vec(size_type count, value_type val)
FillCtor(d, count, val, f) ==
  /\ ~vec[d].alive
  /\ CanFail(count, TRUE, f)
  /\ Construct(d, IF version = "unique" THEN Vec_fill_unique(count, val, f)
                  ELSE Vec_fill_raw(count, val, f),
               Op("fill", d, 0, 0, Outcome(f), 0))

\* Vec(std::initializer_list<value_type> l)
ListCtor(d, l, f) ==
  /\ ~vec[d].alive
  /\ CanFail(Len(l), TRUE, f)
  /\ Construct(d, IF version = "unique" THEN Vec_list_unique(l, f)
                  ELSE Vec_list_raw(l, f),
               Op("list", d, 0, 0, Outcome(f), 0))

\* Vec(const Vec& that)
CopyCtor(d, s, f) ==
  /\ ~vec[d].alive
  /\ vec[s].alive
  /\ CanFail(size(vec[s]), version = "unique" \/ ~empty(vec[s]), f)
  /\ Construct(d, IF version = "unique" THEN Vec_copy_unique(vec[s], f)
                  ELSE Vec_copy_raw(vec[s], f),
               Op("copy", d, s, 0, Outcome(f), 0))

\* Vec(Vec&& that) noexcept: <<the new object, what is left of that>>
Vec_move_keep(that) == <<Obj(size(that), data(that)), that>>
Vec_move(that) == <<Obj(size(that), data(that)), Empty>>

MoveCtor(d, s) ==
  /\ ~vec[d].alive
  /\ vec[s].alive
  /\ LET m == Vec_move(vec[s])
     IN  Commit([vec EXCEPT ![d] = m[1], ![s] = m[2]], heap,
                Op("move", d, s, 0, "ok", 0))

\* ~Vec() noexcept: delete[] _data, or the unique_ptr member's destructor
Dtor(d) ==
  /\ vec[d].alive
  /\ Commit([vec EXCEPT ![d] = Dead], Release(heap, data(vec[d])),
            Op("dtor", d, 0, data(vec[d]), "ok", 0))

\* ---- swap ----
\* swap(_data, that._data); swap(_size, that._size): <<this, that>> afterwards
swap_data_only(a, b) == <<Obj(size(a), data(b)), Obj(size(b), data(a))>>
swap(a, b) == <<Obj(size(b), data(b)), Obj(size(a), data(a))>>

\* a.swap(b) and the friend swap(a, b)
Swap(d, s) ==
  /\ vec[d].alive
  /\ vec[s].alive
  /\ LET w == swap(vec[d], vec[s])
     IN  Commit([vec EXCEPT ![d] = w[1], ![s] = w[2]], heap,
                Op("swap", d, s, 0, "ok", 0))

\* ---- assignment ----
\* what an assignment leaves behind: the target object and the heap
Assigned(o, h) == [ok |-> TRUE, obj |-> o, h |-> h]
NotAssigned(o, h) == [ok |-> FALSE, obj |-> o, h |-> h]

\* raw: auto* temp = new T[that._size]; std::copy(that.begin(), that.end(), temp);
\*      delete[] _data; _data = temp; _size = that._size;
copy_assign_raw(this, that, f) ==
  CASE f = "alloc" -> NotAssigned(this, heap)
    [] f = "elem" -> NotAssigned(this, Store(heap, Fresh, <<>>))  \* T is int: never
    [] OTHER -> Assigned(Obj(size(that), Fresh),
                         Release(Store(heap, Fresh, Elems(that)), data(this)))

\* copy-and-swap: the copy constructor builds temp, swap(temp), temp is destroyed.
\* regular: auto temp(that); swap(temp);   unique: operator=(Vec that){ swap(that); }
copy_and_swap(this, c) ==
  IF ~c.ok THEN NotAssigned(this, c.h)
  ELSE LET w == swap(this, c.obj)
       IN  Assigned(w[1], Release(c.h, data(w[2])))

copy_assign_regular(this, that, f) == copy_and_swap(this, Vec_copy_raw(that, f))
copy_assign_unique(this, that, f) == copy_and_swap(this, Vec_copy_unique(that, f))

\* b = a
CopyAssign(d, s, f) ==
  /\ vec[d].alive
  /\ vec[s].alive
  /\ CanFail(size(vec[s]), version # "regular" \/ ~empty(vec[s]), f)
  /\ LET r == CASE version = "raw" -> copy_assign_raw(vec[d], vec[s], f)
                [] version = "regular" -> copy_assign_regular(vec[d], vec[s], f)
                [] OTHER -> copy_assign_unique(vec[d], vec[s], f)
     IN  Commit([vec EXCEPT ![d] = r.obj], r.h, Op("copy_assign", d, s, 0, Outcome(f), 0))

\* raw, regular: operator=(Vec&& that){ std::swap(_data, that._data);
\* std::swap(_size, that._size); }
move_assign_swap(v, d, s) ==
  LET w == swap(v[d], v[s])
  IN  [v |-> [v EXCEPT ![d] = w[1], ![s] = w[2]], h |-> heap]

\* unique: operator=(Vec that){ swap(that); } with that move-constructed from
\* the source, and destroyed on return
move_assign_unique(v, d, s) ==
  LET m == Vec_move(v[s])
      v1 == [v EXCEPT ![s] = m[2]]
      w == swap(v1[d], m[1])
  IN  [v |-> [v1 EXCEPT ![d] = w[1]], h |-> Release(heap, data(w[2]))]

\* b = std::move(a)
MoveAssign(d, s) ==
  /\ vec[d].alive
  /\ vec[s].alive
  /\ LET r == IF version = "unique" THEN move_assign_unique(vec, d, s)
              ELSE move_assign_swap(vec, d, s)
     IN  Commit(r.v, r.h, Op("move_assign", d, s, 0, "ok", 0))

\* ---- clear, unique_ptr version only ----
\* clear(){ *this = {}; }: the by-value operator= on a default-constructed Vec
clear_size_only(this) == Assigned(Obj(0, data(this)), heap)
clear(this) == copy_and_swap(this, Built(Empty, heap))

Clear(d) ==
  /\ version = "unique"
  /\ vec[d].alive
  /\ LET r == clear(vec[d])
     IN  Commit([vec EXCEPT ![d] = r.obj], r.h, Op("clear", d, 0, data(vec[d]), "ok", 0))

\* ---- element access, unique_ptr version only ----
\* operator[](index): assert(index < size()); return _data[index];
Index(v, index) == heap[data(v)].cells[index + 1]

\* v[index] = val, within the precondition index < size()
Write(d, index, val) ==
  /\ version = "unique"
  /\ vec[d].alive
  /\ index < size(vec[d])
  /\ Commit(vec, [heap EXCEPT ![data(vec[d])].cells[index + 1] = val],
            Op("write", d, 0, 0, "ok", 0))

\* ---- comparison and checked access ----
\* std::equal(first1, last1, first2) over a[i..] and b[i..]
RECURSIVE equal(_, _, _)
equal(a, b, i) ==
  IF i > Len(a) THEN TRUE
  ELSE IF a[i] # b[i] THEN FALSE
  ELSE equal(a, b, i + 1)

\* operator==: if(size() != that.size()){ return false; } return std::equal(...)
operator_eq(a, b) ==
  IF size(a) # size(b) THEN FALSE ELSE equal(Elems(a), Elems(b), 1)

\* std::lexicographical_compare(first1, last1, first2, last2):
\*   for(; first1 != last1 && first2 != last2; ++first1, ++first2){
\*     if(*first1 < *first2) return true;  if(*first2 < *first1) return false; }
\*   return first1 == last1 && first2 != last2;
RECURSIVE lexicographical_compare_eq_less(_, _, _)
lexicographical_compare_eq_less(a, b, i) ==
  IF i > Len(a) \/ i > Len(b) THEN i > Len(a)
  ELSE IF a[i] < b[i] THEN TRUE
  ELSE IF b[i] < a[i] THEN FALSE
  ELSE lexicographical_compare_eq_less(a, b, i + 1)

RECURSIVE lexicographical_compare(_, _, _)
lexicographical_compare(a, b, i) ==
  IF i > Len(a) \/ i > Len(b) THEN i > Len(a) /\ ~(i > Len(b))
  ELSE IF a[i] < b[i] THEN TRUE
  ELSE IF b[i] < a[i] THEN FALSE
  ELSE lexicographical_compare(a, b, i + 1)

\* operator<
operator_lt_eq_less(a, b) == lexicographical_compare_eq_less(Elems(a), Elems(b), 1)
operator_lt(a, b) == lexicographical_compare(Elems(a), Elems(b), 1)

Bit(b) == IF b THEN 1 ELSE 0

\* a == b
Eq(a, b) ==
  /\ vec[a].alive
  /\ vec[b].alive
  /\ Commit(vec, heap, Op("eq", a, b, 0, "ok", Bit(operator_eq(vec[a], vec[b]))))

\* a < b
Lt(a, b) ==
  /\ vec[a].alive
  /\ vec[b].alive
  /\ Commit(vec, heap, Op("lt", a, b, 0, "ok", Bit(operator_lt(vec[a], vec[b]))))

\* at(index): if(index < size()){ return _data[index]; } throw std::out_of_range
in_range_off_by_one(v, index) == index + 1 < size(v)
in_range(v, index) == index < size(v)

At(d, index) ==
  /\ version = "unique"
  /\ vec[d].alive
  /\ IF in_range(vec[d], index)
     THEN Commit(vec, heap, Op("at", d, 0, index, "ok", heap[data(vec[d])].cells[index + 1]))
     ELSE Commit(vec, heap, Op("at", d, 0, index, "out_of_range", 0))

Next ==
  \/ \E d \in Slots : DefaultCtor(d)
  \/ \E d \in Slots, n \in 0..MaxLen : CountCtor(d, n, "none")
  \/ \E d \in Slots, n \in 0..MaxLen, v \in Vals : FillCtor(d, n, v, "none")
  \/ \E d \in Slots, l \in Seqs : ListCtor(d, l, "none")
  \/ \E d, s \in Slots : CopyCtor(d, s, "none")
  \/ \E d, s \in Slots : MoveCtor(d, s)
  \/ \E d, s \in Slots : CopyAssign(d, s, "none")
  \/ \E d, s \in Slots : MoveAssign(d, s)
  \/ \E d \in Slots : Dtor(d)
  \/ \E d, s \in Slots : Swap(d, s)
  \/ \E d \in Slots : Clear(d)
  \/ \E d \in Slots, i \in 0..(MaxLen - 1), v \in Vals : Write(d, i, v)

\* programs in which no construction and no copy fails
Spec == Init /\ [][Next]_vars

\* programs in which an allocation or an element copy may throw: the
\* operations that can throw, and those that build and destroy their operands
Failures == {"alloc", "elem"}

NextThrow ==
  \/ \E d \in Slots : DefaultCtor(d)
  \/ \E d \in Slots, n \in 0..MaxLen, f \in {"none", "alloc"} : CountCtor(d, n, f)
  \/ \E d \in Slots, n \in 0..MaxLen, v \in Vals, f \in {"none"} \cup Failures :
       FillCtor(d, n, v, f)
  \/ \E d \in Slots, l \in Seqs, f \in {"none"} \cup Failures : ListCtor(d, l, f)
  \/ \E d, s \in Slots, f \in {"none"} \cup Failures : CopyCtor(d, s, f)
  \/ \E d, s \in Slots : MoveCtor(d, s)
  \/ \E d, s \in Slots, f \in {"none"} \cup Failures : CopyAssign(d, s, f)
  \/ \E d \in Slots : Dtor(d)

SpecThrow == Init /\ [][NextThrow]_vars

\* programs that build their Vecs from literal sequences and then only compare
\* them and read them with at()
InitRead ==
  /\ version = "unique"
  /\ \E c \in [Slots -> Seqs], defaulted \in SUBSET Slots :
       LET listed == (Slots \cap Addrs) \ defaulted
       IN  /\ vec = [i \in Slots |-> IF i \in listed THEN Obj(Len(c[i]), i) ELSE Empty]
           /\ heap = [a \in Addrs |->
                       IF a \in listed THEN [st |-> "live", cells |-> c[a]] ELSE NoBuffer]
  /\ last = Op("init", 0, 0, 0, "ok", 0)

NextRead ==
  \/ \E a, b \in Slots : Eq(a, b)
  \/ \E a, b \in Slots : Lt(a, b)
  \/ \E d \in Slots, i \in 0..MaxLen : At(d, i)

SpecRead == InitRead /\ [][NextRead]_vars

\* ======================= properties =======================
Live == {i \in Slots : vec[i].alive}
Allocated == {a \in Addrs : heap[a].st = "live"}
Owned == {data(vec[i]) : i \in Live} \ {Null}
Ctors == {"default", "count", "fill", "list", "copy", "move"}

\* C1: every live Vec has size 0 if and only if its data handle is null
EmptyIffNull ==
  \A i \in Live : (size(vec[i]) = 0) <=> (data(vec[i]) = Null)

\* C2: no two live Vecs hold the same buffer, no buffer is released twice, no
\* buffer held by a live Vec has been released, and once every Vec is destroyed
\* no buffer is left allocated
SingleOwner ==
  /\ \A i, j \in Live : (i # j /\ data(vec[i]) = data(vec[j])) => data(vec[i]) = Null
  /\ \A a \in Addrs : heap[a].st # "double"
  /\ \A i \in Live : data(vec[i]) # Null => heap[data(vec[i])].st = "live"
  /\ Live = {} => Allocated = {}

\* C2 witness: the last Vec in scope was destroyed and released its buffer
SingleOwnerWitness ==
  /\ last.op = "dtor"
  /\ last.arg # Null
  /\ Live = {}
  /\ heap[last.arg].st = "free"

\* C3: after move construction of b from a, or b = std::move(a), with a and b
\* distinct: b holds the buffer and the elements a held, a is empty with a null
\* handle, nothing was allocated, and the buffer b owned before is released
MoveStep ==
  (last'.op \in {"move", "move_assign"} /\ last'.d # last'.s) =>
    LET b == last'.d
        a == last'.s
    IN  /\ vec'[b] = Obj(size(vec[a]), data(vec[a]))
        /\ ElemsIn(heap', vec'[b]) = Elems(vec[a])
        /\ vec'[a] = Empty
        /\ Allocated' \subseteq Allocated
        /\ (last'.op = "move_assign" /\ data(vec[b]) # Null) =>
             heap'[data(vec[b])].st = "free"

\* C3: every move construction and move assignment step is a MoveStep
MoveEmptiesSource == [][MoveStep]_vars

\* C4: after a successful copy construction of b from a, or b = a, with a and b
\* distinct: b == a, a is unchanged, and the two do not share a buffer; and an
\* element write, a clear or a copy assignment on one Vec leaves the elements
\* of every other Vec unchanged
CopyStep ==
  \A b, a \in Slots :
    (last'.op \in {"copy", "copy_assign"} /\ last'.d = b /\ last'.s = a /\ a # b) =>
      /\ vec'[b].alive
      /\ operator_eq(vec[b], vec[a])'
      /\ ElemsIn(heap', vec'[b]) = Elems(vec[a])
      /\ vec'[a] = vec[a]
      /\ ElemsIn(heap', vec'[a]) = Elems(vec[a])
      /\ data(vec'[b]) # data(vec'[a]) \/ data(vec'[b]) = Null

IndependentStep ==
  last'.op \in {"write", "clear", "copy_assign"} =>
    \A j \in Slots \ {last'.d} :
      /\ vec'[j] = vec[j]
      /\ ElemsIn(heap', vec'[j]) = Elems(vec[j])

\* C4: every copy is deep and every write, clear and copy assignment is local
CopyIsDeep == [][CopyStep /\ IndependentStep]_vars

\* C4 witness: b = a has run; both hold MaxLen elements in separate buffers
CopyIsDeepWitness ==
  /\ last.op = "copy_assign"
  /\ last.d # last.s
  /\ size(vec[last.d]) = MaxLen
  /\ data(vec[last.d]) # data(vec[last.s])
  /\ Elems(vec[last.d]) = Elems(vec[last.s])
  /\ \E v \in Vals \ {0} : Elems(vec[last.d])[MaxLen] = v

\* C9: clear() leaves the Vec empty with a null handle, releases the buffer it
\* owned once, releases nothing when it owned none, and changes no other Vec
\* and no other buffer
ClearStep ==
  last'.op = "clear" =>
    LET d == last'.d
        p == data(vec[d])
    IN  /\ vec'[d] = Empty
        /\ empty(vec'[d])
        /\ p # Null => heap'[p].st = "free"
        /\ \A a \in Addrs \ {p} : heap'[a] = heap[a]
        /\ \A j \in Slots \ {d} : vec'[j] = vec[j]
        /\ vec[d] = Empty => (vec' = vec /\ heap' = heap)

\* C9: every clear() step is a ClearStep
ClearReleasesOnce == [][ClearStep]_vars

\* C9 witness: clear() has run on a Vec that owned a buffer, while another
\* Vec holds one
ClearWitness ==
  /\ last.op = "clear"
  /\ last.arg # Null
  /\ vec[last.d] = Empty
  /\ heap[last.arg].st = "free"
  /\ \E j \in Live : data(vec[j]) # Null

\* C10: swap(a, b) exchanges the buffers and sizes of a and b, allocates and
\* releases nothing and changes no third Vec; swapping twice restores both,
\* and swap(a, a) changes nothing
SwapStep ==
  last'.op = "swap" =>
    LET a == last'.d
        b == last'.s
    IN  /\ vec'[a] = vec[b]
        /\ vec'[b] = vec[a]
        /\ heap' = heap
        /\ \A j \in Slots \ {a, b} : vec'[j] = vec[j]
        /\ LET w == swap(vec'[a], vec'[b])
           IN  w[1] = vec[a] /\ w[2] = vec[b]

\* C10: every swap step is a SwapStep
SwapExchanges == [][SwapStep]_vars

\* C10 witness: two Vecs of different sizes have been swapped next to a third
SwapWitness ==
  /\ last.op = "swap"
  /\ last.d # last.s
  /\ size(vec[last.d]) # size(vec[last.s])
  /\ data(vec[last.d]) # Null
  /\ data(vec[last.s]) # Null
  /\ \E j \in Live \ {last.d, last.s} : data(vec[j]) # Null

\* C5: when the copy step of b = a fails (a and b distinct), every Vec is as it
\* was, elements included, and no buffer allocated during the attempt is left
\* allocated
FailedCopyAssignStep ==
  (last'.op = "copy_assign" /\ last'.outcome # "ok" /\ last'.d # last'.s) =>
    /\ vec' = vec
    /\ \A j \in Live : ElemsIn(heap', vec'[j]) = Elems(vec[j])
    /\ Allocated' = Allocated

\* C5: every failed copy assignment leaves everything as it was
CopyAssignStrong == [][FailedCopyAssignStep]_vars

\* C6: when a constructor fails no object is left and no buffer the
\* constructor allocated is left allocated, and every live Vec has a buffer of
\* exactly its size, or no buffer and size 0
SizeMatches ==
  \A i \in Live :
    IF data(vec[i]) = Null THEN size(vec[i]) = 0
    ELSE heap[data(vec[i])].st = "live" /\ Len(heap[data(vec[i])].cells) = size(vec[i])

FailedCtorStep ==
  (last'.op \in Ctors /\ last'.outcome # "ok") =>
    /\ ~vec'[last'.d].alive
    /\ vec' = vec
    /\ Allocated' = Allocated

\* C6: sizes always match buffers, and a failed constructor leaves nothing behind
CtorAllOrNothing == [][SizeMatches' /\ FailedCtorStep]_vars

\* C7: operator< is the lexicographic order (the first differing index
\* decides, a strict prefix is less), irreflexive, transitive and total
\* together with operator==, which holds exactly for equal sizes and equal
\* elements; comparing changes neither operand
LexLess(x, y) ==
  \E k \in 0..Len(x) :
    /\ k <= Len(y)
    /\ \A i \in 1..k : x[i] = y[i]
    /\ \/ k = Len(x) /\ k < Len(y)
       \/ k < Len(x) /\ k < Len(y) /\ x[k + 1] < y[k + 1]

OrderLaws(x, y) ==
  /\ operator_lt(x, y) <=> LexLess(Elems(x), Elems(y))
  /\ operator_eq(x, y) <=> Elems(x) = Elems(y)
  /\ size(x) # size(y) => ~operator_eq(x, y)
  /\ ~operator_lt(x, x)
  /\ Bit(operator_lt(x, y)) + Bit(operator_lt(y, x)) + Bit(operator_eq(x, y)) = 1
  /\ \A c \in Live : (operator_lt(x, y) /\ operator_lt(y, vec[c])) => operator_lt(x, vec[c])

CompareStep ==
  last'.op \in {"eq", "lt"} =>
    LET x == vec[last'.d]
        y == vec[last'.s]
    IN  /\ vec' = vec
        /\ heap' = heap
        /\ OrderLaws(x, y)
        /\ last'.ret = Bit(IF last'.op = "lt" THEN LexLess(Elems(x), Elems(y))
                           ELSE Elems(x) = Elems(y))

\* C7: every comparison step is a CompareStep
OrderIsLexTotal == [][CompareStep]_vars

\* C7 witness: a non-empty strict prefix has been compared less than the
\* longer sequence
OrderWitness ==
  /\ last.op = "lt"
  /\ last.ret = 1
  /\ LET x == Elems(vec[last.d])
         y == Elems(vec[last.s])
     IN  /\ 0 < Len(x)
         /\ Len(x) < Len(y)
         /\ x = SubSeq(y, 1, Len(x))

\* C8: at(i) throws out_of_range exactly when i >= size() and then changes
\* nothing; for i < size() it returns the element operator[](i) returns
AtStep ==
  last'.op = "at" =>
    LET v == vec[last'.d]
        i == last'.arg
    IN  /\ vec' = vec
        /\ heap' = heap
        /\ (i >= size(v)) <=> (last'.outcome = "out_of_range")
        /\ i < size(v) => (last'.outcome = "ok" /\ last'.ret = Index(v, i))

\* C8: every at() step is an AtStep
AtChecksRange == [][AtStep]_vars

\* C8 witness: at(size()) has thrown on a Vec that holds elements
AtWitness ==
  /\ last.op = "at"
  /\ last.outcome = "out_of_range"
  /\ size(vec[last.d]) > 0
  /\ last.arg = size(vec[last.d])
====
